---- MODULE Spec2Model ----
(***************************************************************************)
(* Model of docs/COLAB_SCRAPER_TEMPLATE.py: the run controller main(), the *)
(* delivery sink send_to_webhook() and the two source adapters.            *)
(*                                                                         *)
(* The adapters are placeholders in the source ("implement actual scraping *)
(* logic"): they are modelled as the environment, which returns any finite *)
(* list of product records or raises.  The endpoint and the clock are      *)
(* environment inputs as well.                                             *)
(***************************************************************************)
EXTENDS Integers, Sequences, FiniteSets, TLC

\* ---------------------------------------------------------------- bounds
MaxRecords == 2      \* records returned by all adapter calls of one run

\* --------------------------------------------------------- configuration
WEBHOOK_URL    == "http://localhost:5678/webhook/jeantrail-incoming-product"
GMAIL_ACCOUNT  == "jeantrail1001@gmail.com"
SUBCATEGORIES  == <<"Bermuda Shorts", "Cravats", "Vests">>
SCRAPE_TIMEOUT == 30

\* ------------------------------------------------------ environment data
\* Product records are open mappings; one of them has no "name" key.
Products == { [name |-> "Denim Vest", price |-> 10], [price |-> 5] }

\* Instants datetime.utcnow() returns during a run; the clock does not go back.
Instants == {0, 1}

\* What requests.post can do: answer with a status code, or raise.
Statuses   == {200, 204, 503}
Exceptions == {"ReadTimeout"}
Outcomes   == [kind : {"status"}, code : Statuses]
                \cup [kind : {"exception"}, exc : Exceptions]

NoCall  == [kind |-> "none"]
NoError == [kind |-> "none"]

RECURSIVE SeqsUpTo(_)
SeqsUpTo(n) ==
    IF n = 0 THEN { <<>> }
    ELSE LET S == SeqsUpTo(n - 1)
         IN  S \cup { Append(s, p) : s \in {t \in S : Len(t) = n - 1}, p \in Products }

\* ------------------------------------------------------------- formatting
\* str() of an integer
Str(code) == ToString(code)

\* ', '.join(names)
RECURSIVE Join(_)
Join(names) ==
    IF names = << >> THEN ""
    ELSE IF Len(names) = 1 THEN Head(names)
    ELSE Head(names) \o ", " \o Join(Tail(names))

\* dict.get(key) formatted in an f-string: the value, or None when absent
Get(product_data, key) ==
    IF key \in DOMAIN product_data THEN product_data[key] ELSE "None"

\* ------------------------------------------------------- send_to_webhook
BuildPayload_rewrite(product_data, now) ==
    [ source        |-> "colab",
      gmail_account |-> GMAIL_ACCOUNT,
      timestamp     |-> now,
      product       |-> [name |-> Get(product_data, "name")] ]

BuildPayload(product_data, now) ==
    [ source        |-> "colab",
      gmail_account |-> GMAIL_ACCOUNT,
      timestamp     |-> now,
      product       |-> product_data ]

StatusOk_2xx(code) == code \in 200..299

StatusOk(code) == code = 200

SuccessLines_silent(product_data) == << >>

SuccessLines(product_data) ==
    << <<"[SUCCESS] Product sent: ", Get(product_data, "name")>> >>

OnException_reraise(exc) ==
    [ ret |-> FALSE, raises |-> TRUE,
      lines |-> << <<"[ERROR] Failed to send webhook: ", exc>> >> ]

OnException(exc) ==
    [ ret |-> FALSE, raises |-> FALSE,
      lines |-> << <<"[ERROR] Failed to send webhook: ", exc>> >> ]

\* The part of send_to_webhook after requests.post has answered or raised.
SendResult(product_data, outcome) ==
    IF outcome.kind = "status"
    THEN IF StatusOk(outcome.code)
         THEN [ ret |-> TRUE, raises |-> FALSE, lines |-> SuccessLines(product_data) ]
         ELSE [ ret |-> FALSE, raises |-> FALSE,
                lines |-> << <<"[ERROR] Webhook returned ", Str(outcome.code)>> >> ]
    ELSE OnException(outcome.exc)

\* ------------------------------------------------------------------ main
Concat_reversed(alibaba, p1688) == p1688 \o alibaba

Concat(alibaba, p1688) == alibaba \o p1688

MoreProducts_skiplast(i, all) == i < Len(all)

MoreProducts(i, all) == i <= Len(all)

CountSent_never(sent, ok) == sent

CountSent(sent, ok) == IF ok THEN sent + 1 ELSE sent

CountFailed_always(failed, ok) == failed + 1

CountFailed(failed, ok) == IF ok THEN failed ELSE failed + 1

AfterAdapterError_skip == "category"

AfterAdapterError == "raised"

StatsText(sent, failed) == "Sent: " \o Str(sent) \o ", Failed: " \o Str(failed)

SummaryLines_twice(sent, failed) ==
    << <<"[STATS] ", StatsText(sent, failed)>>,
       <<"[STATS] ", StatsText(sent, failed)>> >>

SummaryLines(sent, failed) ==
    << <<"[COMPLETE] Scraping finished", "">>,
       <<"[STATS] ", StatsText(sent, failed)>> >>

VARIABLES
    pc,               \* position of main()
    ci,               \* index in SUBCATEGORIES of the category being processed
    alibaba_products, \* result of scrape_alibaba_products for this category
    all_products,     \* the category's merged list
    pi,               \* index in all_products of the next product of the loop
    total_sent,
    total_failed,
    inflight,         \* the send_to_webhook call blocked in requests.post
    error,            \* the exception propagating out of main()
    stdout,           \* lines printed so far
    posts,            \* history: payloads handed to requests.post
    calls,            \* history: send_to_webhook calls that have returned
    scraped,          \* history: adapter calls that have returned a list
    clock             \* the last instant datetime.utcnow() returned

vars == << pc, ci, alibaba_products, all_products, pi, total_sent, total_failed,
           inflight, error, stdout, posts, calls, scraped, clock >>

RECURSIVE Flatten(_)
Flatten(ss) == IF ss = << >> THEN << >> ELSE Head(ss) \o Flatten(Tail(ss))

\* number of records the adapters have returned so far in this run
Found == Len(Flatten([k \in 1..Len(scraped) |-> scraped[k].items]))

Init ==
    /\ pc = "idle"
    /\ ci = 0
    /\ alibaba_products = << >>
    /\ all_products = << >>
    /\ pi = 1
    /\ total_sent = 0
    /\ total_failed = 0
    /\ inflight = NoCall
    /\ error = NoError
    /\ stdout = << >>
    /\ posts = << >>
    /\ calls = << >>
    /\ scraped = << >>
    /\ clock = 0


\* lines 110-114: banner, counters set to zero, the category loop is entered
Start ==
    /\ pc = "idle"
    /\ stdout' = stdout \o << <<"[START] JeanTrail Colab Scraper - ", GMAIL_ACCOUNT>>,
                              <<"[INFO] Subcategories to scrape: ", Join(SUBCATEGORIES)>> >>
    /\ total_sent' = 0
    /\ total_failed' = 0
    /\ pc' = "category"
    /\ UNCHANGED << ci, alibaba_products, all_products, pi, inflight, error,
                    posts, calls, scraped, clock >>

\* lines 116-117: the for statement takes the next subcategory
NextCategory ==
    /\ pc = "category"
    /\ ci < Len(SUBCATEGORIES)
    /\ ci' = ci + 1
    /\ stdout' = Append(stdout, <<"[PROCESSING] ", SUBCATEGORIES[ci + 1]>>)
    /\ pc' = "scrape_alibaba"
    /\ UNCHANGED << alibaba_products, all_products, pi, total_sent, total_failed,
                    inflight, error, posts, calls, scraped, clock >>

\* line 120: scrape_alibaba_products(subcategory) returns a list
ScrapeAlibaba ==
    /\ pc = "scrape_alibaba"
    /\ \E items \in SeqsUpTo(MaxRecords - Found) :
          /\ alibaba_products' = items
          /\ scraped' = Append(scraped, [cat |-> ci, adapter |-> "alibaba", items |-> items])
    /\ stdout' = Append(stdout, <<"[INFO] Scraping Alibaba for: ", SUBCATEGORIES[ci]>>)
    /\ pc' = "scrape_1688"
    /\ UNCHANGED << ci, all_products, pi, total_sent, total_failed, inflight, error,
                    posts, calls, clock >>

\* line 120: scrape_alibaba_products(subcategory) raises; main has no handler
ScrapeAlibabaRaises ==
    /\ pc = "scrape_alibaba"
    /\ error' = [kind |-> "adapter", adapter |-> "alibaba", cat |-> ci]
    /\ pc' = AfterAdapterError
    /\ UNCHANGED << ci, alibaba_products, all_products, pi, total_sent, total_failed,
                    inflight, stdout, posts, calls, scraped, clock >>

\* lines 121-123: scrape_1688_products(subcategory) returns a list, the two
\* lists are merged and the product loop is entered
Scrape1688 ==
    /\ pc = "scrape_1688"
    /\ \E items \in SeqsUpTo(MaxRecords - Found) :
          /\ all_products' = Concat(alibaba_products, items)
          /\ scraped' = Append(scraped, [cat |-> ci, adapter |-> "1688", items |-> items])
    /\ stdout' = Append(stdout, <<"[INFO] Scraping 1688 for: ", SUBCATEGORIES[ci]>>)
    /\ pi' = 1
    /\ pc' = "products"
    /\ UNCHANGED << ci, alibaba_products, total_sent, total_failed, inflight, error,
                    posts, calls, clock >>

\* line 121: scrape_1688_products(subcategory) raises; main has no handler
Scrape1688Raises ==
    /\ pc = "scrape_1688"
    /\ error' = [kind |-> "adapter", adapter |-> "1688", cat |-> ci]
    /\ pc' = AfterAdapterError
    /\ UNCHANGED << ci, alibaba_products, all_products, pi, total_sent, total_failed,
                    inflight, stdout, posts, calls, scraped, clock >>

\* lines 126-127 and 81-93: the loop takes the next product and calls
\* send_to_webhook, which builds the payload and blocks in requests.post
CallSend ==
    /\ pc = "products"
    /\ MoreProducts(pi, all_products)
    /\ \E now \in {t \in Instants : t >= clock} :
          LET payload == BuildPayload(all_products[pi], now)
          IN  /\ inflight' = [kind |-> "call", product_data |-> all_products[pi],
                              payload |-> payload]
              /\ posts' = Append(posts, [url |-> WEBHOOK_URL, json |-> payload,
                                         timeout |-> SCRAPE_TIMEOUT])
              /\ clock' = now
    /\ pc' = "posting"
    /\ UNCHANGED << ci, alibaba_products, all_products, pi, total_sent, total_failed,
                    error, stdout, calls, scraped >>

\* lines 95-104 and 127-130: requests.post answers or raises, send_to_webhook
\* logs and returns, main counts the result
Respond ==
    /\ pc = "posting"
    /\ \E outcome \in Outcomes :
          LET r == SendResult(inflight.product_data, outcome)
          IN  /\ stdout' = stdout \o r.lines
              /\ calls' = Append(calls, [product_data |-> inflight.product_data,
                                         payload |-> inflight.payload,
                                         outcome |-> outcome,
                                         ret |-> r.ret, raises |-> r.raises,
                                         lines |-> r.lines])
              /\ IF r.raises
                 THEN /\ error' = [kind |-> "sink", exc |-> outcome.exc]
                      /\ pc' = "raised"
                      /\ UNCHANGED << total_sent, total_failed, pi >>
                 ELSE /\ total_sent' = CountSent(total_sent, r.ret)
                      /\ total_failed' = CountFailed(total_failed, r.ret)
                      /\ pi' = pi + 1
                      /\ pc' = "products"
                      /\ UNCHANGED error
    /\ inflight' = NoCall
    /\ UNCHANGED << ci, alibaba_products, all_products, posts, scraped, clock >>

\* line 126: the product loop is exhausted, control returns to line 116
EndCategory ==
    /\ pc = "products"
    /\ ~MoreProducts(pi, all_products)
    /\ pc' = "category"
    /\ UNCHANGED << ci, alibaba_products, all_products, pi, total_sent, total_failed,
                    inflight, error, stdout, posts, calls, scraped, clock >>

\* lines 132-133: the category loop is exhausted, the summary is printed
Finish ==
    /\ pc = "category"
    /\ ~(ci < Len(SUBCATEGORIES))
    /\ stdout' = stdout \o SummaryLines(total_sent, total_failed)
    /\ pc' = "done"
    /\ UNCHANGED << ci, alibaba_products, all_products, pi, total_sent, total_failed,
                    inflight, error, posts, calls, scraped, clock >>

Next ==
    \/ Start
    \/ NextCategory
    \/ ScrapeAlibaba
    \/ ScrapeAlibabaRaises
    \/ Scrape1688
    \/ Scrape1688Raises
    \/ CallSend
    \/ Respond
    \/ EndCategory
    \/ Finish

Spec == Init /\ [][Next]_vars

\* Execution is sequential and every blocking call is bounded by a timeout
\* (SCRAPE_TIMEOUT for requests.post), so an enabled step is eventually taken.
FairSpec == Spec /\ WF_vars(Next)


\* ------------------------------------------------- derived observations
\* the list an adapter returned for category index c (empty if it has not)
RECURSIVE ItemsOf(_, _, _)
ItemsOf(log, c, a) ==
    IF log = << >> THEN << >>
    ELSE IF Head(log).cat = c /\ Head(log).adapter = a THEN Head(log).items
    ELSE ItemsOf(Tail(log), c, a)

\* input order: categories as configured, Alibaba before 1688, then as returned
RECURSIVE ExpectedFrom(_)
ExpectedFrom(c) ==
    IF c > Len(SUBCATEGORIES) THEN << >>
    ELSE ItemsOf(scraped, c, "alibaba") \o ItemsOf(scraped, c, "1688") \o ExpectedFrom(c + 1)

Expected == ExpectedFrom(1)

\* the records send_to_webhook has been called with, in call order
Attempted ==
    [k \in 1..Len(calls) |-> calls[k].product_data]
        \o (IF inflight.kind = "call" THEN << inflight.product_data >> ELSE << >>)

IsPrefix(s, t) == Len(s) <= Len(t) /\ \A k \in 1..Len(s) : s[k] = t[k]

ReturnedTrue  == Cardinality({k \in 1..Len(calls) : calls[k].ret})
ReturnedFalse == Cardinality({k \in 1..Len(calls) : ~calls[k].ret})

Answered200(c) == c.outcome.kind = "status" /\ c.outcome.code = 200

StatsLines == {k \in 1..Len(stdout) : stdout[k][1] = "[STATS] "}

Count(seq, x) == Cardinality({k \in 1..Len(seq) : seq[k] = x})

\* ------------------------------------------------------------------ C1
\* C1: when main() completes, the summary line shows sent = number of
\* send_to_webhook calls that returned true and failed = number that
\* returned false, and sent + failed = N, the number of records the
\* adapters returned.
C1_SummaryCounts ==
    pc = "done" =>
        /\ total_sent = ReturnedTrue
        /\ total_failed = ReturnedFalse
        /\ total_sent + total_failed = Found
        /\ stdout[Len(stdout)] = <<"[STATS] ", StatsText(ReturnedTrue, ReturnedFalse)>>
        /\ (\A k \in 1..Len(calls) : calls[k].ret)  => total_sent = Found /\ total_failed = 0
        /\ (\A k \in 1..Len(calls) : ~calls[k].ret) => total_failed = Found /\ total_sent = 0

C1_Witness ==
    /\ pc = "done"
    /\ Found = 2
    /\ total_sent = 1
    /\ total_failed = 1

\* ------------------------------------------------------------------ C2
\* C2: whatever each delivery's outcome, the sink is invoked exactly once per
\* record in input order: at every point the records attempted so far are a
\* prefix of the input order, each attempt made one network request, and when
\* the run completes the attempts are exactly the input order.
C2_EachRecordOnceInOrder ==
    /\ IsPrefix(Attempted, Expected)
    /\ Len(posts) = Len(Attempted)
    /\ pc = "done" => Attempted = Expected

C2_Witness ==
    /\ pc = "done"
    /\ ItemsOf(scraped, 2, "alibaba") # << >>
    /\ ItemsOf(scraped, 2, "1688") # << >>
    /\ ItemsOf(scraped, 2, "alibaba") # ItemsOf(scraped, 2, "1688")
    /\ ~calls[1].ret

\* ------------------------------------------------------------------ C3
\* C3: send_to_webhook returns true iff the endpoint answered with status
\* code exactly 200; other codes (204, 503) and transport errors give false.
C3_TrueIff200 ==
    \A k \in 1..Len(calls) : calls[k].ret <=> Answered200(calls[k])

C3_Witness ==
    /\ \E k \in 1..Len(calls) : Answered200(calls[k]) /\ calls[k].ret
    /\ \E k \in 1..Len(calls) :
          /\ calls[k].outcome.kind = "status"
          /\ calls[k].outcome.code = 204
          /\ ~calls[k].ret

\* ------------------------------------------------------------------ C4
\* C4: a transport failure or non-200 answer makes send_to_webhook return
\* false without raising; it is counted in failed, the run goes on (no
\* exception of the sink reaches main), and each call makes one request only.
C4_FailureIsLocal ==
    /\ \A k \in 1..Len(calls) :
          ~Answered200(calls[k]) => ~calls[k].ret /\ ~calls[k].raises
    /\ total_failed = Cardinality({k \in 1..Len(calls) : ~Answered200(calls[k])})
    /\ error.kind # "sink"
    /\ Len(posts) = Len(calls) + (IF inflight.kind = "call" THEN 1 ELSE 0)

C4_Witness ==
    /\ Len(calls) = 2
    /\ calls[1].outcome.kind = "exception"
    /\ calls[2].outcome.kind = "status" /\ calls[2].outcome.code = 503
    /\ total_failed = 2
    /\ pc = "done"

\* ------------------------------------------------------------------ C5
\* C5: when an adapter call raises, the exception leaves main(): nothing
\* happens afterwards (no adapter call, no delivery) and no summary line
\* is ever printed.
C5_AdapterErrorAborts ==
    /\ [](error.kind = "adapter" => pc = "raised" /\ StatsLines = {} /\ inflight = NoCall)
    /\ [][pc # "raised"]_vars

C5_Witness ==
    /\ pc = "raised"
    /\ error.kind = "adapter" /\ error.adapter = "1688" /\ error.cat = 2
    /\ Len(calls) >= 1

\* ------------------------------------------------------------------ C6
\* C6 as stated: at the end of every run, completed or aborted, every record
\* an adapter returned has been passed to the sink and the summary is printed.
C6_Original ==
    pc \in {"done", "raised"} =>
        /\ \A p \in Products : Count(Attempted, p) = Count(Flatten([k \in 1..Len(scraped) |-> scraped[k].items]), p)
        /\ StatsLines # {}

\* C6 amended: in every run in which no adapter call raises, every record an
\* adapter returned is passed to the sink and the run prints its sent/failed
\* counts at the end.
C6_Amended ==
    pc = "done" =>
          /\ \A p \in Products : Count(Attempted, p) = Count(Flatten([k \in 1..Len(scraped) |-> scraped[k].items]), p)
          /\ stdout[Len(stdout)] = <<"[STATS] ", StatsText(total_sent, total_failed)>>

C6_Witness ==
    /\ pc = "done"
    /\ Found = 2
    /\ Len(calls) = 2
    /\ ci = Len(SUBCATEGORIES)

\* ------------------------------------------------------------------ C7
\* C7 as stated: every call emits exactly one log line and that line names
\* the product (its name field as the code formats it).
C7_Original ==
    \A k \in 1..Len(calls) :
        /\ Len(calls[k].lines) = 1
        /\ calls[k].lines[1][2] = Get(calls[k].product_data, "name")

\* C7 amended: every call emits exactly one log line; on the success path the
\* line carries the record's name field (None when it has none); on the
\* failure paths the line carries the status code or the exception text and
\* nothing of the product.
C7_Amended ==
    \A k \in 1..Len(calls) :
        /\ Len(calls[k].lines) = 1
        /\ calls[k].ret =>
              /\ calls[k].lines[1][1] = "[SUCCESS] Product sent: "
              /\ calls[k].lines[1][2] = Get(calls[k].product_data, "name")
        /\ ~calls[k].ret =>
              /\ calls[k].lines[1][1] \in {"[ERROR] Webhook returned ", "[ERROR] Failed to send webhook: "}
              /\ calls[k].lines[1][2] \in {Str(c) : c \in Statuses \ {200}} \cup Exceptions

C7_Witness ==
    /\ Len(calls) = 2
    /\ calls[1].ret /\ "name" \in DOMAIN calls[1].product_data
    /\ ~calls[2].ret /\ "name" \in DOMAIN calls[2].product_data

\* ------------------------------------------------------------------ C8
Phase ==
    IF pc = "idle" THEN "Idle"
    ELSE IF pc = "done" THEN "Complete"
    ELSE IF pc = "raised" THEN "Aborted"
    ELSE "Running"

\* C8: as long as no adapter raises the controller moves only
\* Idle -> Running -> Complete, it eventually reaches Complete, and the
\* summary is printed exactly once, after the last delivery of the last
\* category has returned.
C8_RunCompletes ==
    /\ [][error'.kind = "none" =>
            \/ Phase' = Phase
            \/ Phase = "Idle" /\ Phase' = "Running"
            \/ Phase = "Running" /\ Phase' = "Complete"]_vars
    /\ <>(pc = "done" \/ error.kind = "adapter")
    /\ [](Cardinality(StatsLines) <= 1)
    /\ [](StatsLines # {} =>
            /\ pc = "done"
            /\ ci = Len(SUBCATEGORIES)
            /\ inflight = NoCall
            /\ Len(calls) = Len(Expected))
    /\ [](pc = "done" => Cardinality(StatsLines) = 1)

C8_Witness ==
    /\ pc = "done"
    /\ Cardinality(StatsLines) = 1
    /\ ItemsOf(scraped, Len(SUBCATEGORIES), "1688") # << >>
    /\ Len(calls) = 2

\* ------------------------------------------------------------------ C9
WithoutTimestamp(payload) == [payload EXCEPT !.timestamp = 0]

\* C9: the posted envelope has exactly the fields source, gmail_account,
\* timestamp and product; source is "colab", gmail_account the configured
\* account, product the record send_to_webhook was called with, unchanged;
\* two envelopes for the same record differ at most in the timestamp.
C9_EnvelopeDeterministic ==
    /\ \A k \in 1..Len(posts) :
          /\ DOMAIN posts[k].json = {"source", "gmail_account", "timestamp", "product"}
          /\ posts[k].json.source = "colab"
          /\ posts[k].json.gmail_account = GMAIL_ACCOUNT
          /\ posts[k].json.product = Attempted[k]
    /\ \A i, j \in 1..Len(posts) :
          Attempted[i] = Attempted[j] =>
              WithoutTimestamp(posts[i].json) = WithoutTimestamp(posts[j].json)

C9_Witness ==
    /\ Len(posts) = 2
    /\ Attempted[1] = Attempted[2]
    /\ "name" \in DOMAIN Attempted[1]
    /\ posts[1].json.timestamp # posts[2].json.timestamp

\* ----------------------------------------------------------------- C10
\* C10: at every point of every run, aborted ones included, sent and failed
\* are non-negative and sum to the number of returned send_to_webhook calls;
\* a step leaves both unchanged or is the return of one call, which adds
\* exactly 1 to exactly one of them.
C10_CountersTrackCalls ==
    /\ [](total_sent >= 0 /\ total_failed >= 0 /\ total_sent + total_failed = Len(calls))
    /\ [][\/ /\ total_sent' = total_sent
             /\ total_failed' = total_failed
             /\ Len(calls') = Len(calls)
          \/ /\ Len(calls') = Len(calls) + 1
             /\ \/ total_sent' = total_sent + 1 /\ total_failed' = total_failed
                \/ total_sent' = total_sent /\ total_failed' = total_failed + 1]_vars

C10_Witness ==
    /\ pc = "raised"
    /\ total_sent = 1
    /\ total_failed = 1

====
